---- MODULE Spec2Model ----
(***************************************************************************)
(* A model of TicketGen.py: the TicketGenerator renderer.                  *)
(*                                                                         *)
(* An image is modelled by its size (and, for the canvas, by the list of   *)
(* things drawn on it); pixels are not modelled.  Python floats are        *)
(* modelled as IEEE 754 binary64 values with correctly rounded operations, *)
(* so that int(h * (bw / bh)) and int(255 * (1 - i / w)) are computed as   *)
(* the interpreter computes them and not as exact rationals.               *)
(***************************************************************************)
EXTENDS Integers, Sequences, FiniteSets, TLC

(***************************************************************************)
(* Natural numbers of any size: little-endian sequences of digits in base  *)
(* 2^13, without high zero digits.  <<>> is 0.                             *)
(***************************************************************************)
DigitBits == 12 + 1
Base == 2 ^ DigitBits

RECURSIVE Trim(_)
Trim(a) ==
    IF a = <<>> THEN <<>>
    ELSE IF a[Len(a)] = 0 THEN Trim(SubSeq(a, 1, Len(a) - 1))
    ELSE a

RECURSIVE BigOf(_)
BigOf(n) == IF n = 0 THEN <<>> ELSE <<n % Base>> \o BigOf(n \div Base)

RECURSIVE BigVal(_)
BigVal(a) == IF a = <<>> THEN 0 ELSE a[1] + Base * BigVal(Tail(a))

\* The number of bits of n, for 0 <= n < 2^30.
BitLen(n) == CHOOSE k \in 0..30 : n < 2 ^ k /\ (k = 0 \/ 2 ^ (k - 1) <= n)

BigBitLen(a) ==
    IF a = <<>> THEN 0 ELSE DigitBits * (Len(a) - 1) + BitLen(a[Len(a)])

\* The highest place from i down where a and b differ, 0 if there is none.
CmpFrom(a, b, i) ==
    IF \A j \in 1..i : a[j] = b[j] THEN 0
    ELSE CHOOSE j \in 1..i : a[j] # b[j] /\ \A l \in (j + 1)..i : a[l] = b[l]

CmpAt(a, b, j) == IF j = 0 THEN 0 ELSE IF a[j] > b[j] THEN 1 ELSE -1

\* -1, 0 or 1 as a < b, a = b, a > b.
BigCmp(a, b) ==
    IF Len(a) > Len(b) THEN 1
    ELSE IF Len(a) < Len(b) THEN -1
    ELSE CmpAt(a, b, CmpFrom(a, b, Len(a)))

\* The digits of a - b from place i on, after the digits acc and with the
\* borrow of the places below (the tests have borrow and acc computed
\* before the next place).
RECURSIVE SubFrom(_, _, _, _, _)
SubFrom(a, b, i, borrow, acc) ==
    IF borrow >= 0 /\ Len(acc) >= 0 /\ i > Len(a) THEN acc
    ELSE SubFrom(a, b, i + 1,
                 IF a[i] - (IF i <= Len(b) THEN b[i] ELSE 0) - borrow < 0 THEN 1 ELSE 0,
                 Append(acc, (a[i] - (IF i <= Len(b) THEN b[i] ELSE 0) - borrow + Base)
                             % Base))

\* a - b, for a >= b.
BigSub(a, b) == IF Len(a) >= 0 /\ Len(b) >= 0 THEN Trim(SubFrom(a, b, 1, 0, <<>>)) ELSE <<>>

\* The digits of a * k from place i on, after the digits acc.
RECURSIVE MulFrom(_, _, _, _, _)
MulFrom(a, k, i, carry, acc) ==
    IF carry >= 0 /\ Len(acc) >= 0 /\ i > Len(a) THEN acc \o BigOf(carry)
    ELSE MulFrom(a, k, i + 1, (a[i] * k + carry) \div Base,
                 Append(acc, (a[i] * k + carry) % Base))

\* a * k, for a small k (0 <= k < 2^17).
BigMulSmall(a, k) == IF Len(a) >= 0 /\ k >= 0 THEN Trim(MulFrom(a, k, 1, 0, <<>>)) ELSE <<>>

\* The digits of a + carry * Base^(i-1) from place i on, after the digits acc.
RECURSIVE AddFrom(_, _, _, _)
AddFrom(a, i, carry, acc) ==
    IF carry >= 0 /\ Len(acc) >= 0 /\ i > Len(a)
    THEN (IF carry = 0 THEN acc ELSE Append(acc, carry))
    ELSE AddFrom(a, i + 1, (a[i] + carry) \div Base, Append(acc, (a[i] + carry) % Base))

\* a + k, for a small k.
BigAddSmall(a, k) == IF Len(a) >= 0 /\ k >= 0 THEN AddFrom(a, 1, k, <<>>) ELSE <<>>

\* a * 2^s.
BigShl(a, s) ==
    IF a = <<>> THEN <<>>
    ELSE [i \in 1..(s \div DigitBits) |-> 0] \o BigMulSmall(a, 2 ^ (s % DigitBits))

\* floor(a / 2^s).
BigShr(a, s) ==
    LET drop == s \div DigitBits
        t    == s % DigitBits
        n    == Len(a) - drop
        at(i) == IF i <= Len(a) THEN a[i] ELSE 0
    IN  IF n <= 0 THEN <<>>
        ELSE Trim([i \in 1..n |->
                     (at(i + drop) \div (2 ^ t))
                     + (at(i + drop + 1) % (2 ^ t)) * (2 ^ (DigitBits - t))])

\* Bit k of a (bit 0 is the least significant).
BigBit(a, k) ==
    LET i == (k \div DigitBits) + 1
    IN  IF i > Len(a) THEN 0 ELSE (a[i] \div (2 ^ (k % DigitBits))) % 2

\* Whether some bit of a below bit k is set.
BigLowNonzero(a, k) ==
    LET i == (k \div DigitBits) + 1
    IN  \/ \E j \in 1..Len(a) : j < i /\ a[j] # 0
        \/ i <= Len(a) /\ a[i] % (2 ^ (k % DigitBits)) # 0

\* q or q + 1: up when the guard bit is set and the rest is not an even tie.
RoundUpIf(q, guard, sticky) ==
    IF guard /\ (sticky \/ BigBit(q, 0) = 1) THEN BigAddSmall(q, 1) ELSE q

\* a / 2^s rounded to the nearest integer, ties to even (s >= 1).
RoundShr(a, s) == RoundUpIf(BigShr(a, s), BigBit(a, s - 1) = 1, BigLowNonzero(a, s - 1))

(***************************************************************************)
(* Non-negative binary64 values: [m, e] stands for m * 2^e with            *)
(* 2^52 <= m < 2^53, and FZero for 0.0.  The values of this program are    *)
(* far from the subnormal and the overflow range.                          *)
(***************************************************************************)
DoubleDigits == 53

FZero == [m |-> <<>>, e |-> 0]

\* A rounded significand that reached 2^53 is 2^52 with the next exponent.
Renorm(r, e) ==
    IF BigBitLen(r) > DoubleDigits THEN [m |-> BigShr(r, 1), e |-> e + 1]
    ELSE [m |-> r, e |-> e]

Normalize(a, e, bl) ==
    IF bl > DoubleDigits
    THEN Renorm(RoundShr(a, bl - DoubleDigits), e + bl - DoubleDigits)
    ELSE [m |-> BigShl(a, DoubleDigits - bl), e |-> e - (DoubleDigits - bl)]

\* The double nearest to a * 2^e (ties to even).
ToDouble(a, e) == IF a = <<>> THEN FZero ELSE Normalize(a, e, BigBitLen(a))

\* float(n) for an int n >= 0.
FromInt(n) == ToDouble(BigOf(n), 0)

\* Whether a quotient q is rounded up: c compares twice the remainder with
\* the divisor.
RoundsUp(c, q) == c > 0 \/ (c = 0 /\ BigBit(q, 0) = 1)

\* A digit of the quotient of R by the 53-bit divisor d (R < d * Base): the
\* quotient khat of their leading bits is at most 1 below and 3 above it.
DivDigit(R, d, khat) ==
    CHOOSE k \in (khat - 3)..(khat + 1) :
        /\ k >= 0
        /\ BigCmp(BigMulSmall(d, k), R) <= 0
        /\ BigCmp(BigMulSmall(d, k + 1), R) > 0

RECURSIVE DivLoop(_, _, _, _)
\* The remainder and the quotient after the digit k, whose product with the
\* divisor is p (each test has its operand computed before the next step).
DivSub(R, d, q, k, p, n) ==
    IF Len(p) >= 0 THEN DivLoop(BigSub(R, p), d, <<k>> \o q, n - 1) ELSE <<>>

DivChunk(R, d, q, k, n) ==
    IF k >= 0 THEN DivSub(R, d, q, k, BigMulSmall(d, k), n) ELSE <<>>

DivPick(R, d, q, khat, n) ==
    IF khat >= 0 THEN DivChunk(R, d, q, DivDigit(R, d, khat), n) ELSE <<>>

\* One step of DivLoop, on the remainder R shifted by a digit.
DivStep(R, d, q, n) ==
    IF Len(R) >= 0
    THEN DivPick(R, d, q, BigVal(BigShr(R, DoubleDigits - DigitBits))
                            \div BigVal(BigShr(d, DoubleDigits - DigitBits)), n)
    ELSE <<>>

\* Long division, one quotient digit a step: <<quotient, remainder>>.
DivLoop(r, d, q, n) ==
    IF Len(r) >= 0 /\ Len(q) >= 0 /\ n = 0 THEN <<q, r>>
    ELSE DivStep(BigShl(r, DigitBits), d, q, n)

\* The quotient, rounded by its remainder, as a double.
FDivRounded(q, r, d, e) ==
    ToDouble(IF RoundsUp(BigCmp(BigMulSmall(r, 2), d), q) THEN BigAddSmall(q, 1) ELSE q, e)

FDivRound(qr, d, e) ==
    IF Len(qr) >= 0 THEN FDivRounded(qr[1], qr[2], d, e) ELSE FZero

\* The significands are in [2^52, 2^53): with j in {0, 1} the first quotient
\* bit is 1.
FDivShifted(x, y, j) ==
    FDivRound(DivLoop(BigSub(BigShl(x.m, j), y.m), y.m, <<1>>,
                      (DoubleDigits - 1) \div DigitBits),
              y.m, x.e - y.e - (DoubleDigits - 1) - j)

\* x / y (y # 0.0), correctly rounded.
FDiv(x, y) ==
    IF x = FZero THEN FZero
    ELSE FDivShifted(x, y, IF BigCmp(x.m, y.m) >= 0 THEN 0 ELSE 1)

RECURSIVE ChunkLoop(_, _, _, _)
\* Long division by a small divisor, one digit a step: <<quotient, remainder>>.
ChunkLoop(r, d, q, n) ==
    IF r >= 0 /\ Len(q) >= 0 /\ n = 0 THEN <<q, r>>
    ELSE ChunkLoop((r * Base) % d, d, <<(r * Base) \div d>> \o q, n - 1)

IntDivRound(qr, d, e) ==
    ToDouble(IF RoundsUp(IF 2 * qr[2] > d THEN 1 ELSE IF 2 * qr[2] = d THEN 0 ELSE -1,
                         qr[1])
             THEN BigAddSmall(qr[1], 1) ELSE qr[1], e)

\* n0 and d have the same bit length; s is the binary exponent taken out.
IntDivScaled(n0, d, s, j) ==
    IntDivRound(ChunkLoop(n0 * 2 ^ j - d, d, <<1>>, (DoubleDigits - 1) \div DigitBits),
                d, s - j - (DoubleDigits - 1))

IntDivAligned(a, b, la, lb) ==
    IntDivScaled(IF lb > la THEN a * 2 ^ (lb - la) ELSE a,
                 IF la > lb THEN b * 2 ^ (la - lb) ELSE b,
                 la - lb,
                 IF (IF lb > la THEN a * 2 ^ (lb - la) ELSE a)
                      < (IF la > lb THEN b * 2 ^ (la - lb) ELSE b) THEN 1 ELSE 0)

\* a / b for ints 0 <= a < 2^16, 0 < b < 2^16 (Python's true division of
\* ints, correctly rounded).  The same value as FDiv(FromInt(a), FromInt(b)).
IntDiv(a, b) == IF a = 0 THEN FZero ELSE IntDivAligned(a, b, BitLen(a), BitLen(b))

\* k * x for an int k >= 0, correctly rounded (k is exact as a float).
FMulInt(k, x) == IF x = FZero THEN FZero ELSE ToDouble(BigMulSmall(x.m, k), x.e)

\* 1 - x for 0.0 <= x <= 1.0, correctly rounded.
FOneMinus(x) ==
    IF x = FZero THEN FromInt(1)
    ELSE ToDouble(BigSub(BigShl(<<1>>, 0 - x.e), x.m), x.e)

\* x > y, for x, y >= 0.0.
FGreater(x, y) ==
    IF x = FZero THEN FALSE
    ELSE IF y = FZero THEN TRUE
    ELSE x.e > y.e \/ (x.e = y.e /\ BigCmp(x.m, y.m) > 0)

\* int(x): truncation, for x >= 0.0.
FTrunc(x) ==
    IF x = FZero THEN 0
    ELSE IF x.e >= 0 THEN BigVal(BigShl(x.m, x.e))
    ELSE BigVal(BigShr(x.m, 0 - x.e))

(***************************************************************************)
(* Pillow and qrcode, as far as the renderer relies on them.               *)
(***************************************************************************)

\* Python's round() of n2 / 2: to the nearest integer, ties to the even one.
\* Image.crop rounds each coordinate of its box this way.
RoundHalf(n2) ==
    IF n2 % 2 = 0 THEN n2 \div 2
    ELSE LET f == (n2 - 1) \div 2 IN IF f % 2 = 0 THEN f ELSE f + 1

\* Payload bytes a QR symbol of version v holds at error-correction level H
\* in byte mode (the mode of a URL with lower-case letters).
QrCapacityH ==
    << 7, 14, 24, 34, 44, 58, 64, 84, 98, 119,
       137, 155, 177, 194, 220, 250, 280, 310, 338, 382,
       403, 439, 461, 511, 535, 593, 625, 658, 698, 742,
       790, 842, 898, 958, 983, 1051, 1093, 1139, 1219, 1273 >>

QrMaxVersion == Len(QrCapacityH)

\* QRCode(version=start).make(fit=False): the version stays as given.
qr_make_nofit(start, len) ==
    IF len <= QrCapacityH[start]
    THEN [ok |-> TRUE, version |-> start, err |-> ""]
    ELSE [ok |-> FALSE, version |-> start, err |-> "DataOverflowError"]

\* QRCode(version=start).make(fit=True): best_fit raises the version to the
\* smallest one from start on that holds the payload, and fails with
\* DataOverflowError when not even the largest version does.
qr_make(start, len) ==
    LET fits == {v \in start..QrMaxVersion : len <= QrCapacityH[v]}
    IN  IF fits = {} THEN [ok |-> FALSE, version |-> start, err |-> "DataOverflowError"]
        ELSE [ok |-> TRUE,
              version |-> CHOOSE v \in fits : \A u \in fits : v <= u,
              err |-> ""]

\* Side in pixels of the image make_image renders for a symbol.
QrImageSide(version, box_size, border) == ((17 + 4 * version) + 2 * border) * box_size

(***************************************************************************)
(* process_background, after the file is open: the scaled size, the crop   *)
(* box as Image.crop rounds it, and the size of the cropped image.         *)
(***************************************************************************)
\* Lines 162-167: the crop box of an image scaled to new, as Image.crop
\* rounds it.  left, top, right and bottom are multiples of 0.5, kept doubled.
CropBox(new, width, height) ==
    << RoundHalf(new[1] - width), RoundHalf(new[2] - height),
       RoundHalf(new[1] - width + 2 * width), RoundHalf(new[2] - height + 2 * height) >>

Cropped(new, box) ==
    [err |-> "", new_width |-> new[1], new_height |-> new[2],
     box |-> box, size |-> <<box[3] - box[1], box[4] - box[2]>>]

\* Line 160: Image.resize wants a size of at least 1 x 1.
ResizeAndCrop(new, width, height) ==
    IF new[1] < 1 \/ new[2] < 1
    THEN [err |-> "ValueError", new_width |-> new[1], new_height |-> new[2],
          box |-> <<0, 0, 0, 0>>, size |-> <<0, 0>>]
    ELSE Cropped(new, CropBox(new, width, height))

\* Lines 153-158: <<new_width, new_height>>.
ScaledSize(bg_aspect, ticket_aspect, width, height) ==
    IF FGreater(bg_aspect, ticket_aspect)
    THEN <<FTrunc(FMulInt(height, bg_aspect)), height>>
    ELSE <<width, FTrunc(FDiv(FromInt(width), bg_aspect))>>

FitAndCrop(bw, bh, width, height) ==
    IF height = 0
    THEN [err |-> "ZeroDivisionError", new_width |-> 0, new_height |-> 0,
          box |-> <<0, 0, 0, 0>>, size |-> <<0, 0>>]
    ELSE ResizeAndCrop(ScaledSize(IntDiv(bw, bh), IntDiv(width, height), width, height),
                       width, height)

\* A gradient that runs the other way: int(255 * (i / width)).
GradientAlphaReversed(i, width) == FTrunc(FMulInt(255, IntDiv(i, width)))

\* Line 174: the alpha add_gradient draws in column i of a canvas of the given
\* width, int(255 * (1 - i / width)).
GradientAlpha(i, width) == FTrunc(FMulInt(255, FOneMinus(IntDiv(i, width))))

(***************************************************************************)
(* The world of the renderer: the asset files, the background images, and  *)
(* the inputs the model draws from.                                        *)
(***************************************************************************)
IconNames == {"calendar", "clock", "map", "ticket"}

icon_files ==
    [calendar |-> "calendar.png", clock |-> "clock.png",
     map |-> "map.png", ticket |-> "ticket.png"]

FontFiles == {"arial.ttf", "arialbd.ttf"}

LogoFile == "./EVNTia.png"

AssetFiles == {icon_files[n] : n \in IconNames} \cup FontFiles \cup {LogoFile}

\* The background images on disk, with their sizes; any other path is missing.
BackgroundImages ==
    ("./Mage4.jpg" :> <<1920, 1080>>) @@ ("wide.jpg" :> <<3, 1>>) @@ ("same.jpg" :> <<9, 7>>)

BackgroundPaths == DOMAIN BackgroundImages \cup {"missing.jpg"}

TicketConfig(w, h) ==
    [width |-> w, height |-> h, padding |-> 50,
     font_large_size |-> 36, font_small_size |-> 16, icon_size |-> 24]

DefaultConfig == TicketConfig(1202, 450)

Configs ==
    {TicketConfig(s[1], s[2]) :
        s \in {<<1202, 450>>, <<3, 2>>, <<9, 7>>, <<0, 2>>, <<-1, 2>>, <<3, 0>>}}

\* A text is known by the bounding box textbbox measures for it.
Text(w, h) == [w |-> w, h |-> h]

TicketData(qr_len, category) ==
    [qr_len |-> qr_len, title |-> Text(120, 27), category |-> category]

\* The sample of __main__: a 28-byte URL, the category "Concert".
SampleData == TicketData(28, Text(52, 12))

TicketDatas ==
    {TicketData(n, Text(52, 12)) : n \in {14, 15, 28, 1273, 1274}}
    \cup {TicketData(28, Text(0, 0)), TicketData(28, Text(5, 2))}

NoConfig == TicketConfig(0, 0)
NoFont   == [kind |-> "unset", file |-> "", size |-> 0]
NoImage  == [id |-> 0, size |-> <<0, 0>>, ops |-> <<>>]
NoData   == TicketData(0, Text(0, 0))

IdleCall ==
    [pc |-> "idle", background_path |-> "", ticket_data |-> NoData,
     ticket |-> NoImage, row |-> 0, y_pos |-> 0, err |-> "", result |-> NoImage]

VARIABLES
    files,        \* the asset files that exist and can be read
    constructed,  \* whether TicketGenerator.__init__ has run
    config, font_large, font_small, font_bold, icons,   \* the renderer's fields
    built,        \* history: the fields as __init__ left them
    calls,        \* the generate_ticket calls, one slot each
    pbIn, pbOut,  \* process_background alone: its input and its result
    gradWidth, gradAlpha, gradDone   \* add_gradient alone: the loop's state

renderer == <<constructed, config, font_large, font_small, font_bold, icons, built>>
pbVars   == <<pbIn, pbOut>>
gradVars == <<gradWidth, gradAlpha, gradDone>>
vars     == <<files, renderer, calls, pbVars, gradVars>>

(***************************************************************************)
(* TicketGenerator.__init__: setup_fonts and load_icons.                   *)
(***************************************************************************)
TrueType(file, size) == [kind |-> "truetype", file |-> file, size |-> size]
DefaultFont == [kind |-> "default", file |-> "", size |-> 0]

\* The three truetype loads are in one try block: one IOError sets all three
\* fonts to the built-in default font.
setup_fonts(fs, cfg) ==
    IF "arial.ttf" \in fs /\ "arialbd.ttf" \in fs
    THEN [font_large |-> TrueType("arial.ttf", cfg.font_large_size),
          font_small |-> TrueType("arial.ttf", cfg.font_small_size),
          font_bold  |-> TrueType("arialbd.ttf", cfg.font_large_size)]
    ELSE [font_large |-> DefaultFont, font_small |-> DefaultFont, font_bold |-> DefaultFont]

IconId(name) == CASE name = "calendar" -> 1 [] name = "clock" -> 2
                  [] name = "map" -> 3 [] name = "ticket" -> 4

\* An icon that was opened, converted to RGBA and resized.
LoadedIcon(name, cfg) ==
    [id |-> IconId(name), size |-> <<cfg.icon_size, cfg.icon_size>>,
     bands |-> "RGBA", source |-> icon_files[name]]

\* Image.new('RGBA', (icon_size, icon_size), (0, 0, 0, 0)).
PlaceholderIcon(name, cfg) ==
    [id |-> IconId(name), size |-> <<cfg.icon_size, cfg.icon_size>>,
     bands |-> "RGBA", source |-> "transparent"]

\* A load_icons without the except branch's placeholder: a failed icon is left out.
load_icons_skip(fs, cfg) ==
    [n \in {m \in IconNames : icon_files[m] \in fs} |-> LoadedIcon(n, cfg)]

\* Each icon has its own try block: a failure replaces that icon alone.
load_icons(fs, cfg) ==
    [n \in IconNames |->
        IF icon_files[n] \in fs THEN LoadedIcon(n, cfg) ELSE PlaceholderIcon(n, cfg)]

\* The renderer's fields, as the methods of one call read them.
Renderer(cfg, fl, fsm, fb, ic) ==
    [config |-> cfg, font_large |-> fl, font_small |-> fsm, font_bold |-> fb, icons |-> ic]

Self == Renderer(config, font_large, font_small, font_bold, icons)

TicketGenerator_init(Cfgs) ==
    /\ ~constructed
    /\ \E cfg \in Cfgs :
         LET f  == setup_fonts(files, cfg)
             ic == load_icons(files, cfg)
         IN  /\ config' = cfg
             /\ font_large' = f.font_large
             /\ font_small' = f.font_small
             /\ font_bold' = f.font_bold
             /\ icons' = ic
             /\ built' = Renderer(cfg, f.font_large, f.font_small, f.font_bold, ic)
    /\ constructed' = TRUE
    /\ UNCHANGED <<files, calls, pbVars, gradVars>>

(***************************************************************************)
(* Images.  A canvas is its identity, its size and what was drawn on it.   *)
(***************************************************************************)
ImageNew(id, size) == [id |-> id, size |-> size, ops |-> <<>>]

\* A paste that replaces the canvas by what is pasted.
PasteReplaces(canvas, op) == [canvas EXCEPT !.size = op.size, !.ops = Append(@, op)]

\* Image.paste draws into the canvas (clipped to it): its size stays.
PasteInto(canvas, op) == [canvas EXCEPT !.ops = Append(@, op)]

\* ImageDraw: text, rectangle and pieslice draw into the canvas.
DrawOn(canvas, op) == [canvas EXCEPT !.ops = Append(@, op)]

\* DrawOn for each of ops in turn.
DrawAll(canvas, ops) == [canvas EXCEPT !.ops = @ \o ops]

\* The images that are alive: the icons, and each call's canvas and result.
LiveIds(cs) ==
    ({icons[n].id : n \in DOMAIN icons}
     \cup {cs[c].ticket.id : c \in DOMAIN cs} \cup {cs[c].result.id : c \in DOMAIN cs})
    \ {NoImage.id}

\* The identity of a newly allocated image: one that no live image has.
FreshId(live) ==
    CHOOSE i \in 1..(Cardinality(live) + 1) :
        i \notin live /\ \A j \in 1..(i - 1) : j \in live

\* get_text_dimensions: the width and height of the text's bounding box.
get_text_dimensions(text, font) == <<text.w, text.h>>

\* An exception leaves generate_ticket: nothing is returned.
Raise(call, err) == [call EXCEPT !.pc = "failed", !.err = err, !.result = NoImage]

\* generate_ticket with the icon rows before the category badge.
NextStageRowsFirst(stage) ==
    CASE stage = "new" -> "background"
      [] stage = "background" -> "gradient"
      [] stage = "gradient" -> "text"
      [] stage = "text" -> "icons"
      [] stage = "icons" -> "badge"
      [] stage = "badge" -> "qr"
      [] stage = "qr" -> "done"

\* The order of generate_ticket's statements: what follows each stage.
NextStage(stage) ==
    CASE stage = "new" -> "background"
      [] stage = "background" -> "gradient"
      [] stage = "gradient" -> "text"
      [] stage = "text" -> "badge"
      [] stage = "badge" -> "icons"
      [] stage = "icons" -> "qr"
      [] stage = "qr" -> "done"

(***************************************************************************)
(* generate_ticket and the methods it calls, as functions of the renderer  *)
(* g (self), the call's record and the inputs.                             *)
(***************************************************************************)

\* Line 96: Image.new("RGB", (width, height), "white") rejects a negative size.
StartCall(g, path, data, id) ==
    LET call == [IdleCall EXCEPT !.pc = "new", !.background_path = path,
                                 !.ticket_data = data]
    IN  IF g.config.width < 0 \/ g.config.height < 0
        THEN Raise(call, "ValueError")
        ELSE [call EXCEPT !.ticket = ImageNew(id, <<g.config.width, g.config.height>>),
                          !.pc = NextStage("new")]

\* The result of process_background on a file that was opened.
Fitted(r) == [err |-> r.err, size |-> r.size]

\* A process_background that falls back to a blank image when the file is missing.
process_background_fallback(images, path, cfg) ==
    IF path \notin DOMAIN images THEN [err |-> "", size |-> <<cfg.width, cfg.height>>]
    ELSE Fitted(FitAndCrop(images[path][1], images[path][2], cfg.width, cfg.height))

\* Image.open raises when the file is missing; nothing catches it.
process_background(images, path, cfg) ==
    IF path \notin DOMAIN images THEN [err |-> "FileNotFoundError", size |-> <<0, 0>>]
    ELSE Fitted(FitAndCrop(images[path][1], images[path][2], cfg.width, cfg.height))

\* Line 98: the cropped background is pasted at (0, 0).
PasteBackground(call, r) ==
    IF r.err # "" THEN Raise(call, r.err)
    ELSE [call EXCEPT
            !.ticket = PasteInto(@, [op |-> "paste_background", at |-> <<0, 0>>,
                                     size |-> r.size]),
            !.pc = NextStage("background")]

\* Lines 97-98.
StepBackground(g, call) ==
    PasteBackground(call, process_background(BackgroundImages, call.background_path,
                                             g.config))

\* The gradient has the configured size; alpha_composite wants two images of
\* one size and returns a new image.
add_gradient(cfg, ticket, id) ==
    LET gradient == ImageNew(id, <<cfg.width, cfg.height>>)
    IN  IF ticket.size # gradient.size THEN [err |-> "ValueError", ticket |-> ticket]
        ELSE [err |-> "",
              ticket |-> [id |-> id, size |-> ticket.size,
                          ops |-> Append(ticket.ops,
                                         [op |-> "gradient", size |-> gradient.size])]]

\* Line 99.
StepGradient(g, call, id) ==
    LET r == add_gradient(g.config, call.ticket, id)
    IN  IF r.err # "" THEN Raise(call, r.err)
        ELSE [call EXCEPT !.ticket = r.ticket, !.pc = NextStage("gradient")]

TextOp(what, x, y, font) == [op |-> "text", what |-> what, x |-> x, y |-> y, font |-> font]

\* Lines 100-114: the number, the owner, the heading and the title.
StepText(g, call) ==
    [call EXCEPT
       !.ticket = DrawAll(@, << TextOp("number", g.config.padding, 20, g.font_bold),
                                TextOp("owner", g.config.padding, 70, g.font_small),
                                TextOp("heading", g.config.padding, 130, g.font_large),
                                TextOp("title", g.config.padding, 180, g.font_bold) >>),
       !.pc = NextStage("text")]

Rectangle(x0, y0, x1, y1) == [op |-> "rectangle", x0 |-> x0, y0 |-> y0, x1 |-> x1, y1 |-> y1]
Pieslice(x0, y0, x1, y1, from, to) ==
    [op |-> "pieslice", x0 |-> x0, y0 |-> y0, x1 |-> x1, y1 |-> y1, from |-> from, to |-> to]

\* Two body rectangles and four quarter discs.
create_rounded_rectangle(coords, radius) ==
    LET x1 == coords[1]
        y1 == coords[2]
        x2 == coords[3]
        y2 == coords[4]
    IN  << Rectangle(x1 + radius, y1, x2 - radius, y2),
           Rectangle(x1, y1 + radius, x2, y2 - radius),
           Pieslice(x1, y1, x1 + radius * 2, y1 + radius * 2, 180, 270),
           Pieslice(x2 - radius * 2, y1, x2, y1 + radius * 2, 270, 360),
           Pieslice(x1, y2 - radius * 2, x1 + radius * 2, y2, 90, 180),
           Pieslice(x2 - radius * 2, y2 - radius * 2, x2, y2, 0, 90) >>

\* A box whose far edge is before its near edge.
Inverted(op) == op.x1 < op.x0 \/ op.y1 < op.y0

\* Lines 116-126: the category badge and its label.  strict: the installed
\* Pillow rejects an inverted rectangle (ValueError) instead of drawing it.
StepBadge(g, call, strict) ==
    LET title_width == get_text_dimensions(call.ticket_data.title, g.font_bold)[1]
        cat         == get_text_dimensions(call.ticket_data.category, g.font_small)
        category_x  == g.config.padding + title_width + 10
        category_y  == 180 + 5
        shapes      == create_rounded_rectangle(
                           <<category_x, category_y,
                             category_x + cat[1] + 20, category_y + cat[2] + 10>>, 10)
        bad         == {i \in 1..Len(shapes) : Inverted(shapes[i])}
        first       == CHOOSE i \in bad : \A j \in bad : i <= j
    IN  IF strict /\ bad # {}
        THEN [Raise(call, "ValueError") EXCEPT
                !.ticket = DrawAll(@, SubSeq(shapes, 1, first - 1))]
        ELSE [call EXCEPT
                !.ticket = DrawOn(DrawAll(@, shapes),
                                  TextOp("category", category_x + 10, category_y + 2,
                                         g.font_small)),
                !.pc = NextStage("badge")]

\* Lines 129-134; an x_offset is <<n>>, or <<>> for None.
details == << <<"calendar", "date", <<0>> >>, <<"clock", "time", <<>> >>,
              <<"map", "location", <<>> >>, <<"ticket", "ticket_type", <<>> >> >>

\* self.icons[icon_type] raises KeyError for a name that is not a key.
draw_icon_with_text(g, ticket, x, y, icon_type, text) ==
    IF icon_type \notin DOMAIN g.icons THEN [err |-> "KeyError", ticket |-> ticket]
    ELSE LET icon   == g.icons[icon_type]
             text_y == y + (g.config.icon_size - g.config.font_small_size) \div 2
         IN  [err |-> "",
              ticket |-> DrawOn(PasteInto(ticket,
                                          [op |-> "icon", name |-> icon_type, x |-> x,
                                           y |-> y, size |-> icon.size,
                                           mask |-> (icon.bands = "RGBA"),
                                           source |-> icon.source]),
                                TextOp(text, x + g.config.icon_size + 10, text_y,
                                       g.font_small))]

\* Lines 128, 136-143: one turn of the loop over details.
StepIconRow(g, call) ==
    LET d     == details[call.row + 1]
        y0    == IF call.row = 0 THEN 260 ELSE call.y_pos
        y_pos == IF d[3] = <<>> THEN y0 + 40 ELSE y0
        x_pos == IF d[3] = <<>> THEN g.config.padding ELSE g.config.padding + d[3][1]
        r     == draw_icon_with_text(g, call.ticket, x_pos, y_pos, d[1], d[2])
    IN  IF r.err # "" THEN Raise(call, r.err)
        ELSE [call EXCEPT !.ticket = r.ticket, !.row = @ + 1, !.y_pos = y_pos,
                          !.pc = IF call.row + 1 = Len(details)
                                 THEN NextStage("icons") ELSE @]

\* The symbol is made first, then the logo is opened; neither error is caught.
add_qr_code(fs, ticket, qr_len) ==
    LET qr            == qr_make(2, qr_len)
        qr_size       == <<320, 320>>
        logo_size     == <<80, 40>>
        logo_position == <<(qr_size[1] - logo_size[1]) \div 2,
                           (qr_size[2] - logo_size[2]) \div 2>>
    IN  IF ~qr.ok THEN [err |-> qr.err, ticket |-> ticket]
        ELSE IF LogoFile \notin fs THEN [err |-> "FileNotFoundError", ticket |-> ticket]
        ELSE [err |-> "",
              ticket |-> PasteInto(ticket,
                                   [op |-> "paste_qr", at |-> <<830, 50>>, size |-> qr_size,
                                    version |-> qr.version,
                                    rendered |-> QrImageSide(qr.version, 8, 2),
                                    logo_at |-> logo_position, logo_size |-> logo_size])]

\* Lines 145-146: the canvas is returned.
StepQr(g, fs, call) ==
    LET r == add_qr_code(fs, call.ticket, call.ticket_data.qr_len)
    IN  IF r.err # "" THEN Raise(call, r.err)
        ELSE [call EXCEPT !.ticket = r.ticket, !.result = r.ticket, !.pc = NextStage("qr")]

(***************************************************************************)
(* The calls.  A slot holds one call: it may start a new one when the      *)
(* last has returned or raised.  The stages of several calls interleave.   *)
(***************************************************************************)
Slots == DOMAIN calls

Others == <<files, renderer, pbVars, gradVars>>

GenerateTicket_new(c, Paths, Datas) ==
    /\ constructed
    /\ calls[c].pc \in {"idle", "done", "failed"}
    /\ \E path \in Paths, data \in Datas :
         LET dropped == [calls EXCEPT ![c] = IdleCall]
         IN  calls' = [calls EXCEPT ![c] = StartCall(Self, path, data,
                                                      FreshId(LiveIds(dropped)))]
    /\ UNCHANGED Others

GenerateTicket_background(c) ==
    /\ calls[c].pc = "background"
    /\ calls' = [calls EXCEPT ![c] = StepBackground(Self, @)]
    /\ UNCHANGED Others

GenerateTicket_gradient(c) ==
    /\ calls[c].pc = "gradient"
    /\ calls' = [calls EXCEPT ![c] = StepGradient(Self, @, FreshId(LiveIds(calls)))]
    /\ UNCHANGED Others

GenerateTicket_text(c) ==
    /\ calls[c].pc = "text"
    /\ calls' = [calls EXCEPT ![c] = StepText(Self, @)]
    /\ UNCHANGED Others

GenerateTicket_badge(c) ==
    /\ calls[c].pc = "badge"
    /\ \E strict \in BOOLEAN : calls' = [calls EXCEPT ![c] = StepBadge(Self, @, strict)]
    /\ UNCHANGED Others

\* An icon row that stores the pasted icon back without its alpha channel.
GenerateTicket_icon_row_convert(c) ==
    /\ calls[c].pc = "icons"
    /\ calls' = [calls EXCEPT ![c] = StepIconRow(Self, @)]
    /\ icons' = [icons EXCEPT ![details[calls[c].row + 1][1]].bands = "RGB"]
    /\ UNCHANGED <<files, constructed, config, font_large, font_small, font_bold, built,
                   pbVars, gradVars>>

GenerateTicket_icon_row(c) ==
    /\ calls[c].pc = "icons"
    /\ calls' = [calls EXCEPT ![c] = StepIconRow(Self, @)]
    /\ UNCHANGED Others

GenerateTicket_qr(c) ==
    /\ calls[c].pc = "qr"
    /\ calls' = [calls EXCEPT ![c] = StepQr(Self, files, @)]
    /\ UNCHANGED Others

(***************************************************************************)
(* process_background alone, on every source and target size up to MaxDim. *)
(***************************************************************************)
MaxDim == 9

NoFit == [err |-> "none", new_width |-> 0, new_height |-> 0,
          box |-> <<0, 0, 0, 0>>, size |-> <<0, 0>>]

NoFitInput == [bw |-> 0, bh |-> 0, width |-> 0, height |-> 0]

ProcessBackground ==
    /\ pbIn # NoFitInput
    /\ pbOut = NoFit
    /\ pbOut' = FitAndCrop(pbIn.bw, pbIn.bh, pbIn.width, pbIn.height)
    /\ UNCHANGED <<files, renderer, calls, pbIn, gradVars>>

(***************************************************************************)
(* add_gradient alone: the loop over the columns, then the composite.      *)
(***************************************************************************)
MaxGradWidth == 16

GradWidths == 1..MaxGradWidth \cup {DefaultConfig.width}

\* Line 174-175: column i = Len(gradAlpha) is drawn.
GradientColumn ==
    /\ gradWidth > 0
    /\ Len(gradAlpha) < gradWidth
    /\ gradAlpha' = Append(gradAlpha, GradientAlpha(Len(gradAlpha), gradWidth))
    /\ UNCHANGED <<files, renderer, calls, pbVars, gradWidth, gradDone>>

\* Line 177: the loop is over.
GradientComposite ==
    /\ gradWidth > 0
    /\ Len(gradAlpha) = gradWidth
    /\ ~gradDone
    /\ gradDone' = TRUE
    /\ UNCHANGED <<files, renderer, calls, pbVars, gradWidth, gradAlpha>>

(***************************************************************************)
(* The specifications.                                                     *)
(***************************************************************************)
InitRenderer ==
    /\ constructed = FALSE
    /\ config = NoConfig
    /\ font_large = NoFont
    /\ font_small = NoFont
    /\ font_bold = NoFont
    /\ icons = <<>>
    /\ built = Renderer(NoConfig, NoFont, NoFont, NoFont, <<>>)

InitAlone ==
    /\ pbIn = NoFitInput
    /\ pbOut = NoFit
    /\ gradWidth = 0
    /\ gradAlpha = <<>>
    /\ gradDone = FALSE

\* One renderer, any set of readable asset files, one call at a time.
Init ==
    /\ files \in SUBSET AssetFiles
    /\ InitRenderer
    /\ calls = <<IdleCall>>
    /\ InitAlone

Next ==
    \/ TicketGenerator_init(Configs)
    \/ \E c \in Slots : GenerateTicket_new(c, BackgroundPaths, TicketDatas)
    \/ \E c \in Slots : GenerateTicket_background(c)
    \/ \E c \in Slots : GenerateTicket_gradient(c)
    \/ \E c \in Slots : GenerateTicket_text(c)
    \/ \E c \in Slots : GenerateTicket_badge(c)
    \/ \E c \in Slots : GenerateTicket_icon_row(c)
    \/ \E c \in Slots : GenerateTicket_qr(c)

Spec == Init /\ [][Next]_vars

\* Several calls on one renderer, their stages interleaved.
MaxCalls == 2

\* The files present: an icon and a font are missing, so that a placeholder
\* and the default fonts are among what the calls share.
CallFiles == {AssetFiles \ {"map.png", "arialbd.ttf"}}

InitCalls ==
    /\ files \in CallFiles
    /\ InitRenderer
    /\ calls = [c \in 1..MaxCalls |-> IdleCall]
    /\ InitAlone

NextCalls ==
    \/ TicketGenerator_init({DefaultConfig})
    \/ \E c \in Slots : GenerateTicket_new(c, {"./Mage4.jpg", "missing.jpg"},
                          {SampleData, TicketData(1274, Text(52, 12))})
    \/ \E c \in Slots : GenerateTicket_background(c)
    \/ \E c \in Slots : GenerateTicket_gradient(c)
    \/ \E c \in Slots : GenerateTicket_text(c)
    \/ \E c \in Slots : GenerateTicket_badge(c)
    \/ \E c \in Slots : GenerateTicket_icon_row(c)
    \/ \E c \in Slots : GenerateTicket_qr(c)

SpecCalls == InitCalls /\ [][NextCalls]_vars

InitBackground ==
    /\ files = AssetFiles
    /\ InitRenderer
    /\ calls = <<IdleCall>>
    /\ pbIn \in [bw : 1..MaxDim, bh : 1..MaxDim, width : 1..MaxDim, height : 1..MaxDim]
    /\ pbOut = NoFit
    /\ gradWidth = 0
    /\ gradAlpha = <<>>
    /\ gradDone = FALSE

SpecBackground == InitBackground /\ [][ProcessBackground]_vars

InitGradient ==
    /\ files = AssetFiles
    /\ InitRenderer
    /\ calls = <<IdleCall>>
    /\ pbIn = NoFitInput
    /\ pbOut = NoFit
    /\ gradWidth \in GradWidths
    /\ gradAlpha = <<>>
    /\ gradDone = FALSE

NextGradient == GradientColumn \/ GradientComposite

SpecGradient == InitGradient /\ [][NextGradient]_vars

(***************************************************************************)
(* The properties.                                                         *)
(***************************************************************************)
Positive(cfg) == cfg.width > 0 /\ cfg.height > 0

Readable(path) == path \in DOMAIN BackgroundImages

OpsOf(call, kind) == {i \in 1..Len(call.ticket.ops) : call.ticket.ops[i].op = kind}

\* C1: with a configuration of positive width and height, the image a call
\* returns has exactly the configured size, whatever the size of the
\* background and whichever icons were replaced by placeholders.
C1_FinalSize ==
    \A c \in Slots :
        (calls[c].pc = "done" /\ Positive(config))
        => /\ calls[c].result # NoImage
           /\ calls[c].result.size = <<config.width, config.height>>

\* A call has returned although its cropped background had another size than
\* the canvas and an icon is a placeholder.
C1_Witness ==
    \E c \in Slots :
        /\ calls[c].pc = "done"
        /\ Positive(config)
        /\ calls[c].result.ops[1].size # calls[c].result.size
        /\ \E n \in IconNames : icons[n].source = "transparent"

\* C2: a call whose background or logo file cannot be opened ends in an
\* error and returns no image; nothing is drawn after the failing open (no
\* paste of a background, no paste of a QR code), and no fallback exists.
C2_FatalAssets ==
    \A c \in Slots :
        LET k == calls[c]
        IN  /\ (k.pc # "idle" /\ ~Readable(k.background_path))
               => /\ k.pc \in {"background", "failed"}
                  /\ k.ticket.ops = <<>>
                  /\ k.result = NoImage
            /\ (k.pc = "failed" /\ ~Readable(k.background_path) /\ Positive(config))
               => k.err = "FileNotFoundError"
            /\ (k.pc # "idle" /\ LogoFile \notin files)
               => /\ k.pc # "done"
                  /\ OpsOf(k, "paste_qr") = {}
                  /\ k.result = NoImage
            /\ k.pc = "failed" => (k.err # "" /\ k.result = NoImage)

\* A call has failed on a missing background file.
C2_Witness ==
    \E c \in Slots :
        /\ calls[c].pc = "failed"
        /\ calls[c].err = "FileNotFoundError"
        /\ ~Readable(calls[c].background_path)
        /\ Positive(config)

\* What keeps a call from returning besides the icons and the fonts: its
\* files, a configuration of positive size, a payload some QR version holds
\* and a category tall enough for the badge's corners.
Renderable(k) ==
    /\ Readable(k.background_path)
    /\ LogoFile \in files
    /\ Positive(config)
    /\ k.ticket_data.qr_len <= QrCapacityH[QrMaxVersion]
    /\ k.ticket_data.category.h >= 10

C4_Original ==
    \A c \in Slots :
        LET k == calls[c]
        IN  /\ (k.pc # "idle" /\ k.ticket_data.qr_len > QrCapacityH[2]) => k.pc # "done"
            /\ \A i \in OpsOf(k, "paste_qr") : k.ticket.ops[i].version = 2

\* C4 as amended: only a payload longer than the largest version (40) holds
\* at level H is fatal (DataOverflowError, no image).  A payload that version
\* 2 cannot hold but a larger version can is encoded in the smallest version
\* from 2 on that holds it, and the 320 x 320 block is pasted at (830, 50).
C4_FitOrFatal ==
    \A c \in Slots :
        LET k == calls[c]
        IN  /\ (k.pc # "idle" /\ k.ticket_data.qr_len > QrCapacityH[QrMaxVersion])
               => /\ k.pc # "done"
                  /\ k.result = NoImage
                  /\ OpsOf(k, "paste_qr") = {}
            /\ (k.pc = "failed" /\ k.err = "DataOverflowError")
               => k.ticket_data.qr_len > QrCapacityH[QrMaxVersion]
            /\ \A i \in OpsOf(k, "paste_qr") :
                 LET v == k.ticket.ops[i].version
                 IN  /\ v \in 2..QrMaxVersion
                     /\ k.ticket_data.qr_len <= QrCapacityH[v]
                     /\ \A u \in 2..(v - 1) : k.ticket_data.qr_len > QrCapacityH[u]
                     /\ k.ticket.ops[i].size = <<320, 320>>
                     /\ k.ticket.ops[i].at = <<830, 50>>

\* A call has returned with a payload that version 2 cannot hold.
C4_Witness ==
    \E c \in Slots :
        /\ calls[c].pc = "done"
        /\ calls[c].ticket_data.qr_len > QrCapacityH[2]
        /\ \E i \in OpsOf(calls[c], "paste_qr") : calls[c].result.ops[i].version > 2

\* C5 as claimed: a renderer is never constructed with a width or height
\* that is not positive, and no call is started on one.
C5_Original ==
    /\ constructed => Positive(config)
    /\ \A c \in Slots : calls[c].pc # "idle" => Positive(config)

\* The stage of the specification an operation drawn on the canvas belongs to.
StageLetter(op) ==
    CASE op.op = "paste_background" -> "a"
      [] op.op = "gradient" -> "b"
      [] op.op = "text" /\ op.what \in {"number", "owner", "heading", "title"} -> "c"
      [] op.op = "text" /\ op.what = "category" -> "e"
      [] op.op \in {"rectangle", "pieslice"} -> "e"
      [] op.op = "icon" -> "d"
      [] op.op = "text" /\ op.what \in {"date", "time", "location", "ticket_type"} -> "d"
      [] op.op = "paste_qr" -> "f"

\* The place of an operation's stage in an order of the stages.
StageRank(op, order) == CHOOSE a \in 1..Len(order) : order[a] = StageLetter(op)

\* Whether the stages of the canvas's operations follow one another in order.
InOrder(ops, order) ==
    \A i \in 1..(Len(ops) - 1) : StageRank(ops[i], order) <= StageRank(ops[i + 1], order)

\* C6 as claimed: the stages happen in the order a, b, c, d, e, f (the icon
\* rows before the category badge).
C6_Original ==
    \A c \in Slots : InOrder(calls[c].ticket.ops, <<"a", "b", "c", "d", "e", "f">>)

\* C6 as amended: the stages happen in the order a, b, c, e, d, f (the
\* category badge before the icon rows), each finishing before the next
\* starts, and a call that returns has gone through all six.
C6_StageOrder ==
    \A c \in Slots :
        /\ InOrder(calls[c].ticket.ops, <<"a", "b", "c", "e", "d", "f">>)
        /\ calls[c].pc = "done"
           => {StageLetter(calls[c].result.ops[i]) : i \in 1..Len(calls[c].result.ops)}
              = {"a", "b", "c", "d", "e", "f"}

\* A call has returned, with its badge and its four icon rows drawn.
C6_Witness ==
    \E c \in Slots :
        /\ calls[c].pc = "done"
        /\ Cardinality(OpsOf(calls[c], "icon")) = Len(details)
        /\ OpsOf(calls[c], "pieslice") # {}

\* C7 as claimed, for a source bw x bh and a target width x height: one axis
\* of the scaled image equals the target and the other is at least the
\* target (the height is matched when bw/bh > width/height, the width
\* otherwise); the scaled size is within a pixel of the source's aspect
\* ratio; the crop box is centred, lies inside the scaled image and yields
\* exactly width x height.
C7_Original ==
    pbOut # NoFit =>
        LET wider == pbIn.bw * pbIn.height > pbIn.width * pbIn.bh
            nw    == pbOut.new_width
            nh    == pbOut.new_height
            skew  == nw * pbIn.bh - nh * pbIn.bw
            trimL == pbOut.box[1]
            trimR == nw - pbOut.box[3]
            trimT == pbOut.box[2]
            trimB == nh - pbOut.box[4]
        IN  /\ pbOut.err = ""
            /\ wider => (nh = pbIn.height /\ nw >= pbIn.width)
            /\ ~wider => (nw = pbIn.width /\ nh >= pbIn.height)
            /\ skew <= (IF wider THEN pbIn.bh ELSE pbIn.bw)
            /\ 0 - skew <= (IF wider THEN pbIn.bh ELSE pbIn.bw)
            /\ trimL >= 0 /\ trimR >= 0 /\ trimT >= 0 /\ trimB >= 0
            /\ trimL - trimR \in {-1, 0, 1}
            /\ trimT - trimB \in {-1, 0, 1}
            /\ pbOut.size = <<pbIn.width, pbIn.height>>

\* C8: the alpha of every column drawn is in 0..255, column 0 has 255, the
\* alpha never increases from a column to the next, and once the row is
\* complete the last column has the smallest alpha of the row, which is at
\* most 255 / width (0 from width 256 on).
C8_Gradient ==
    /\ \A i \in 1..Len(gradAlpha) : gradAlpha[i] \in 0..255
    /\ Len(gradAlpha) >= 1 => gradAlpha[1] = 255
    /\ \A i \in 1..(Len(gradAlpha) - 1) : gradAlpha[i] >= gradAlpha[i + 1]
    /\ gradDone
       => /\ Len(gradAlpha) = gradWidth
          /\ \A i \in 1..gradWidth : gradAlpha[gradWidth] <= gradAlpha[i]
          /\ gradAlpha[gradWidth] * gradWidth <= 255

\* The row of the default canvas is complete and ends fully transparent.
C8_Witness ==
    /\ gradDone
    /\ gradWidth = DefaultConfig.width
    /\ gradAlpha[gradWidth] = 0
    /\ gradAlpha[1] > gradAlpha[2]

\* One statement group of generate_ticket on the call's own canvas.
Stepped(g, fs, call) ==
    CASE call.pc = "background" -> StepBackground(g, call)
      [] call.pc = "gradient" -> StepGradient(g, call, 0)
      [] call.pc = "text" -> StepText(g, call)
      [] call.pc = "badge" -> StepBadge(g, call, FALSE)
      [] call.pc = "icons" -> StepIconRow(g, call)
      [] call.pc = "qr" -> StepQr(g, fs, call)

\* A call run alone, up to its return or its exception.
RECURSIVE RunCall(_, _, _)
RunCall(g, fs, call) ==
    IF call.pc \in {"done", "failed"} THEN call ELSE RunCall(g, fs, Stepped(g, fs, call))

\* What one call alone draws on renderer g.
Rendered(g, fs, path, data) == RunCall(g, fs, StartCall(g, path, data, 0))

SameDrawing(a, b) == a.size = b.size /\ a.ops = b.ops

\* C9: after construction no call, returning or raising, in any
\* interleaving, changes the configuration, the fonts or the icons; the
\* canvases of different calls are different images, none of them an icon;
\* and what a call returns is what that call alone draws on the renderer as
\* construction left it.
C9_ReadOnly ==
    /\ constructed => Self = built
    /\ \A c \in Slots :
         /\ calls[c].ticket # NoImage => calls[c].ticket.id \notin {icons[n].id : n \in DOMAIN icons}
         /\ \A d \in Slots \ {c} :
              (calls[c].ticket # NoImage /\ calls[d].ticket # NoImage)
              => calls[c].ticket.id # calls[d].ticket.id
         /\ calls[c].pc = "done"
            => SameDrawing(calls[c].result,
                           Rendered(built, files, calls[c].background_path,
                                    calls[c].ticket_data).result)

\* One call has returned and another has raised, on a renderer with a
\* placeholder icon, while their canvases are both alive.
C9_Witness ==
    \E c \in Slots, d \in Slots :
        /\ calls[c].pc = "done"
        /\ calls[d].pc = "failed"
        /\ calls[d].err = "DataOverflowError"
        /\ icons["map"].source = "transparent"

\* C10 as claimed: every rounded rectangle generate_ticket draws has both
\* sides at least twice the radius: no body rectangle of a badge has its far
\* edge before its near edge.
C10_Original ==
    \A c \in Slots :
        \A i \in OpsOf(calls[c], "rectangle") : ~Inverted(calls[c].ticket.ops[i])

====
